---- MODULE Spec2Model ----
(***************************************************************************)
(* Model of src/config.py: class Config (loader, dotted-key resolver,      *)
(* typed accessors, connection-string helper).                             *)
(*                                                                         *)
(* Python strings are modelled as sequences of one-character strings, so   *)
(* that split, upper, replace, strip, int() and float() are computed       *)
(* character by character.  Python values are tagged records.              *)
(***************************************************************************)
EXTENDS Integers, Sequences, FiniteSets, TLC

(***************************************************************************)
(* Python values                                                           *)
(***************************************************************************)
PyNone == [t |-> "NoneType"]
PyStr(s) == [t |-> "str", v |-> s]
PyInt(n) == [t |-> "int", v |-> n]
PyBool(b) == [t |-> "bool", v |-> b]
PyList(l) == [t |-> "list", v |-> l]
PyDict(f) == [t |-> "dict", v |-> f]
\* A float is kept as a decimal: (-1)^neg * m * 10^e, or a non-finite kind.
PyFloatRaw(kind, neg, m, e) == [t |-> "float", v |-> [kind |-> kind, neg |-> neg, m |-> m, e |-> e]]

RECURSIVE NormDec(_, _)
\* strips trailing decimal zeros of the mantissa; zero has exponent 0
NormDec(m, e) ==
  IF m = 0 THEN <<0, 0>>
  ELSE IF m % 10 = 0 THEN NormDec(m \div 10, e + 1)
  ELSE <<m, e>>

PyFloat(neg, m, e) == PyFloatRaw("finite", neg, NormDec(m, e)[1], NormDec(m, e)[2])
PyNaN == PyFloatRaw("nan", FALSE, 0, 0)
PyInf(neg) == PyFloatRaw("inf", neg, 0, 0)

Return(v) == [kind |-> "return", value |-> v]
Raise(e) == [kind |-> "raise", exc |-> e]

(***************************************************************************)
(* str methods used by the program                                         *)
(***************************************************************************)
LowerChars == <<"a","b","c","d","e","f","g","h","i","j","k","l","m",
                "n","o","p","q","r","s","t","u","v","w","x","y","z">>
UpperChars == <<"A","B","C","D","E","F","G","H","I","J","K","L","M",
                "N","O","P","Q","R","S","T","U","V","W","X","Y","Z">>
Digits == <<"0","1","2","3","4","5","6","7","8","9">>
Whitespace == {" ", "\t", "\n"}

IsDigit(c) == \E i \in 1..10 : Digits[i] = c
DigitVal(c) == (CHOOSE i \in 1..10 : Digits[i] = c) - 1

UpperChar(c) ==
  IF \E i \in 1..26 : LowerChars[i] = c
  THEN UpperChars[CHOOSE i \in 1..26 : LowerChars[i] = c]
  ELSE c
LowerChar(c) ==
  IF \E i \in 1..26 : UpperChars[i] = c
  THEN LowerChars[CHOOSE i \in 1..26 : UpperChars[i] = c]
  ELSE c

\* str.upper()
upper(s) == [i \in 1..Len(s) |-> UpperChar(s[i])]
\* str.lower()
lower(s) == [i \in 1..Len(s) |-> LowerChar(s[i])]
\* str.replace(old, new) for one-character old and new
replace(s, old, new) == [i \in 1..Len(s) |-> IF s[i] = old THEN new ELSE s[i]]

RECURSIVE split(_, _)
\* str.split(sep) for a one-character separator: never empty, keeps empty segments
split(s, sep) ==
  IF \E i \in 1..Len(s) : s[i] = sep
  THEN LET i == CHOOSE j \in 1..Len(s) : s[j] = sep /\ \A k \in 1..(j-1) : s[k] # sep
       IN <<SubSeq(s, 1, i - 1)>> \o split(SubSeq(s, i + 1, Len(s)), sep)
  ELSE <<s>>

RECURSIVE strip(_)
\* str.strip(): what int() and float() do to their argument first
strip(s) ==
  IF s = <<>> THEN s
  ELSE IF s[1] \in Whitespace THEN strip(Tail(s))
  ELSE IF s[Len(s)] \in Whitespace THEN strip(SubSeq(s, 1, Len(s) - 1))
  ELSE s

(***************************************************************************)
(* Config.get                                                              *)
(***************************************************************************)
\* truth value of self._config (a dict): non-empty
Truthy(d) == DOMAIN d.v # {}

\* value[k]: KeyError on a missing dict key, TypeError when value is not
\* subscriptable by a str (str, int, float, bool, None, list)
Subscript(value, k) ==
  IF value.t = "dict"
  THEN IF k \in DOMAIN value.v THEN Return(value.v[k]) ELSE Raise("KeyError")
  ELSE Raise("TypeError")

RECURSIVE Walk(_, _)
\* for k in keys: value = value[k]
Walk(value, keys) ==
  IF keys = <<>> THEN Return(value)
  ELSE LET r == Subscript(value, keys[1])
       IN IF r.kind = "raise" THEN r ELSE Walk(r.value, Tail(keys))

\* variant: the try block swallows KeyError only
CaughtKeyErrorOnly == {"KeyError"}

\* the exceptions the try block of Config.get swallows
Caught == {"KeyError", "TypeError"}

\* env_key = key.upper().replace('.', '_')
env_key(key) == replace(upper(key), ".", "_")

\* os.getenv(name): the value as a str, or None
getenv(env, name) == IF name \in DOMAIN env THEN PyStr(env[name]) ELSE PyNone

\* variant: "if env_value:" instead of "if env_value is not None:"
GetFallbackTruthy(env, key, default) ==
  LET env_value == getenv(env, env_key(key))
  IN IF env_value.t # "NoneType" /\ env_value.v # <<>> THEN Return(env_value) ELSE Return(default)

\* variant: the default is returned as a str when it is not one
GetFallbackCoerced(env, key, default) ==
  LET env_value == getenv(env, env_key(key))
  IN IF env_value.t # "NoneType" THEN Return(env_value)
     ELSE IF default.t \in {"str", "NoneType"} THEN Return(default)
     ELSE Return(PyStr(<<"?">>))

\* the fallback part of Config.get (environment, then default)
GetFallback(env, key, default) ==
  LET env_value == getenv(env, env_key(key))
  IN IF env_value.t # "NoneType" THEN Return(env_value) ELSE Return(default)

\* falsy values: None, False, 0, 0.0, "", [], {}
Falsy(x) ==
  CASE x.t = "NoneType" -> TRUE
    [] x.t = "bool" -> ~x.v
    [] x.t = "int" -> x.v = 0
    [] x.t = "float" -> x.v.kind = "finite" /\ x.v.m = 0
    [] x.t = "str" -> x.v = <<>>
    [] x.t = "list" -> x.v = <<>>
    [] x.t = "dict" -> DOMAIN x.v = {}

\* variant: "if value:" instead of "if value is not None:"
GetTruthy(cfg, env, key, default) ==
  IF Truthy(cfg)
  THEN LET w == Walk(cfg, split(key, "."))
       IN IF w.kind = "return"
          THEN IF ~Falsy(w.value) THEN w ELSE GetFallback(env, key, default)
          ELSE IF w.exc \in Caught THEN GetFallback(env, key, default) ELSE w
  ELSE GetFallback(env, key, default)

\* variant: no test for None, whatever the walk ends on is returned
GetNullShadows(cfg, env, key, default) ==
  IF Truthy(cfg)
  THEN LET w == Walk(cfg, split(key, "."))
       IN IF w.kind = "return" THEN w
          ELSE IF w.exc \in Caught THEN GetFallback(env, key, default) ELSE w
  ELSE GetFallback(env, key, default)

get(cfg, env, key, default) ==
  IF Truthy(cfg)
  THEN LET w == Walk(cfg, split(key, "."))
       IN IF w.kind = "return"
          THEN IF w.value.t # "NoneType" THEN w ELSE GetFallback(env, key, default)
          ELSE IF w.exc \in Caught THEN GetFallback(env, key, default) ELSE w
  ELSE GetFallback(env, key, default)

(***************************************************************************)
(* int() and float(), as the typed accessors apply them                    *)
(***************************************************************************)
RECURSIVE Pow10(_)
Pow10(n) == IF n = 0 THEN 1 ELSE 10 * Pow10(n - 1)

\* digit (["_"] digit)* : the digit groups int() and float() accept
IsDigitPart(s) ==
  /\ s # <<>>
  /\ IsDigit(s[1])
  /\ IsDigit(s[Len(s)])
  /\ \A i \in 1..Len(s) : IsDigit(s[i]) \/ s[i] = "_"
  /\ \A i \in 1..(Len(s) - 1) : ~(s[i] = "_" /\ s[i + 1] = "_")

RECURSIVE DigitsValue(_, _)
\* the number a digit part denotes (underscores skipped)
DigitsValue(s, acc) ==
  IF s = <<>> THEN acc
  ELSE IF s[1] = "_" THEN DigitsValue(Tail(s), acc)
  ELSE DigitsValue(Tail(s), 10 * acc + DigitVal(s[1]))

\* number of digits in a digit part
DigitCount(s) == Cardinality({i \in 1..Len(s) : IsDigit(s[i])})

HasSign(s) == s # <<>> /\ s[1] \in {"+", "-"}
Unsigned(s) == IF HasSign(s) THEN Tail(s) ELSE s
IsNeg(s) == s # <<>> /\ s[1] = "-"

\* int(s) for a str s, base 10 (ASCII digits, signs and whitespace)
IntParse(s) ==
  LET body == Unsigned(strip(s))
  IN IF IsDigitPart(body)
     THEN Return(PyInt(IF IsNeg(strip(s)) THEN 0 - DigitsValue(body, 0) ELSE DigitsValue(body, 0)))
     ELSE Raise("ValueError")

\* index of the first occurrence of one of the characters cs in s, 0 if none
Find(s, cs) ==
  IF \E i \in 1..Len(s) : s[i] \in cs
  THEN CHOOSE i \in 1..Len(s) : s[i] \in cs /\ \A k \in 1..(i - 1) : s[k] \notin cs
  ELSE 0

NonFiniteWords == { <<"i","n","f">>, <<"i","n","f","i","n","i","t","y">>, <<"n","a","n">> }

\* float(s) for a str s: [sign] (inf | infinity | nan), any case, or a decimal
\* literal [sign] (digits [. [digits]] | . digits) [(e|E) [sign] digits]
FloatParse(s) ==
  LET t == strip(s)
      neg == IsNeg(t)
      body == Unsigned(t)
      ei == Find(body, {"e", "E"})
      mant == IF ei = 0 THEN body ELSE SubSeq(body, 1, ei - 1)
      expo == IF ei = 0 THEN <<>> ELSE SubSeq(body, ei + 1, Len(body))
      di == Find(mant, {"."})
      ip == IF di = 0 THEN mant ELSE SubSeq(mant, 1, di - 1)
      fp == IF di = 0 THEN <<>> ELSE SubSeq(mant, di + 1, Len(mant))
      mantOk == /\ ip # <<>> \/ fp # <<>>
                /\ ip = <<>> \/ IsDigitPart(ip)
                /\ fp = <<>> \/ IsDigitPart(fp)
      expOk == ei = 0 \/ IsDigitPart(Unsigned(expo))
      expVal == IF ei = 0 THEN 0
                ELSE IF IsNeg(expo) THEN 0 - DigitsValue(Unsigned(expo), 0)
                ELSE DigitsValue(Unsigned(expo), 0)
  IN IF lower(body) = <<"n","a","n">> THEN Return(PyNaN)
     ELSE IF lower(body) \in NonFiniteWords THEN Return(PyInf(neg))
     ELSE IF mantOk /\ expOk
     THEN Return(PyFloat(neg, DigitsValue(ip \o fp, 0), expVal - DigitCount(fp)))
     ELSE Raise("ValueError")

\* int(x)
int(x) ==
  CASE x.t = "str" -> IntParse(x.v)
    [] x.t = "int" -> Return(x)
    [] x.t = "bool" -> Return(PyInt(IF x.v THEN 1 ELSE 0))
    [] x.t = "float" ->
         IF x.v.kind = "nan" THEN Raise("ValueError")
         ELSE IF x.v.kind = "inf" THEN Raise("OverflowError")
         ELSE LET mag == IF x.v.e >= 0 THEN x.v.m * Pow10(x.v.e)
                         ELSE x.v.m \div Pow10(0 - x.v.e)
              IN Return(PyInt(IF x.v.neg THEN 0 - mag ELSE mag))
    [] OTHER -> Raise("TypeError")

\* float(x)
float(x) ==
  CASE x.t = "str" -> FloatParse(x.v)
    [] x.t = "int" -> Return(PyFloat(x.v < 0, IF x.v < 0 THEN 0 - x.v ELSE x.v, 0))
    [] x.t = "bool" -> Return(PyFloat(FALSE, IF x.v THEN 1 ELSE 0, 0))
    [] x.t = "float" -> Return(x)
    [] OTHER -> Raise("TypeError")

\* variant: a failed coercion is swallowed and the raw value returned
CoerceLenient(type, r) ==
  IF r.kind = "raise" THEN r
  ELSE LET c == IF type = "int" THEN int(r.value) ELSE float(r.value)
       IN IF c.kind = "raise" THEN r ELSE c

\* int(self.get(...)) and float(self.get(...)): an exception of either call
\* propagates to the caller of the accessor
Coerce(type, r) ==
  IF r.kind = "raise" THEN r
  ELSE IF type = "int" THEN int(r.value) ELSE float(r.value)

(***************************************************************************)
(* The typed accessors                                                     *)
(***************************************************************************)
\* the segments of the catalog's key paths, as strings
s_database == <<"d","a","t","a","b","a","s","e">>
s_user == <<"u","s","e","r">>
s_password == <<"p","a","s","s","w","o","r","d">>
s_host == <<"h","o","s","t">>
s_name == <<"n","a","m","e">>
s_port == <<"p","o","r","t">>
s_application == <<"a","p","p","l","i","c","a","t","i","o","n">>
s_streamlit_server_port == <<"s","t","r","e","a","m","l","i","t","_","s","e","r","v","e","r","_","p","o","r","t">>
s_streamlit_server_address == <<"s","t","r","e","a","m","l","i","t","_","s","e","r","v","e","r","_","a","d","d","r","e","s","s">>
s_scoring == <<"s","c","o","r","i","n","g">>
s_default_tenure_weight == <<"d","e","f","a","u","l","t","_","t","e","n","u","r","e","_","w","e","i","g","h","t">>
s_default_equity_weight == <<"d","e","f","a","u","l","t","_","e","q","u","i","t","y","_","w","e","i","g","h","t">>
s_default_legal_weight == <<"d","e","f","a","u","l","t","_","l","e","g","a","l","_","w","e","i","g","h","t">>
s_default_permit_weight == <<"d","e","f","a","u","l","t","_","p","e","r","m","i","t","_","w","e","i","g","h","t">>
s_default_listing_weight == <<"d","e","f","a","u","l","t","_","l","i","s","t","i","n","g","_","w","e","i","g","h","t">>
s_time_decay == <<"t","i","m","e","_","d","e","c","a","y">>
s_half_life_days == <<"h","a","l","f","_","l","i","f","e","_","d","a","y","s">>
s_optuna == <<"o","p","t","u","n","a">>
s_n_trials == <<"n","_","t","r","i","a","l","s">>
s_timeout_seconds == <<"t","i","m","e","o","u","t","_","s","e","c","o","n","d","s">>
s_export == <<"e","x","p","o","r","t">>
s_top_k_default == <<"t","o","p","_","k","_","d","e","f","a","u","l","t">>
s_ghl_export_format == <<"g","h","l","_","e","x","p","o","r","t","_","f","o","r","m","a","t">>

\* db_user: self.get('database.user', 'Augur_App')
db_user(cfg, env) ==
  get(cfg, env, s_database \o <<".">> \o s_user, PyStr(<<"A","u","g","u","r","_","A","p","p">>))
\* db_password: self.get('database.password', '')
db_password(cfg, env) ==
  get(cfg, env, s_database \o <<".">> \o s_password, PyStr(<<>>))
\* db_host: self.get('database.host', 'localhost')
db_host(cfg, env) ==
  get(cfg, env, s_database \o <<".">> \o s_host, PyStr(<<"l","o","c","a","l","h","o","s","t">>))
\* db_name: self.get('database.name', 'augur')
db_name(cfg, env) ==
  get(cfg, env, s_database \o <<".">> \o s_name, PyStr(<<"a","u","g","u","r">>))
\* db_port: self.get('database.port', '5432')
db_port(cfg, env) ==
  get(cfg, env, s_database \o <<".">> \o s_port, PyStr(<<"5","4","3","2">>))
\* streamlit_server_port: int(self.get('application.streamlit_server_port', '8501'))
streamlit_server_port(cfg, env) ==
  Coerce("int", get(cfg, env, s_application \o <<".">> \o s_streamlit_server_port, PyStr(<<"8","5","0","1">>)))
\* streamlit_server_address: self.get('application.streamlit_server_address', '0.0.0.0')
streamlit_server_address(cfg, env) ==
  get(cfg, env, s_application \o <<".">> \o s_streamlit_server_address, PyStr(<<"0",".","0",".","0",".","0">>))
\* default_tenure_weight: float(self.get('scoring.default_tenure_weight', '0.3'))
default_tenure_weight(cfg, env) ==
  Coerce("float", get(cfg, env, s_scoring \o <<".">> \o s_default_tenure_weight, PyStr(<<"0",".","3">>)))
\* default_equity_weight: float(self.get('scoring.default_equity_weight', '0.25'))
default_equity_weight(cfg, env) ==
  Coerce("float", get(cfg, env, s_scoring \o <<".">> \o s_default_equity_weight, PyStr(<<"0",".","2","5">>)))
\* default_legal_weight: float(self.get('scoring.default_legal_weight', '0.2'))
default_legal_weight(cfg, env) ==
  Coerce("float", get(cfg, env, s_scoring \o <<".">> \o s_default_legal_weight, PyStr(<<"0",".","2">>)))
\* default_permit_weight: float(self.get('scoring.default_permit_weight', '0.15'))
default_permit_weight(cfg, env) ==
  Coerce("float", get(cfg, env, s_scoring \o <<".">> \o s_default_permit_weight, PyStr(<<"0",".","1","5">>)))
\* default_listing_weight: float(self.get('scoring.default_listing_weight', '0.1'))
default_listing_weight(cfg, env) ==
  Coerce("float", get(cfg, env, s_scoring \o <<".">> \o s_default_listing_weight, PyStr(<<"0",".","1">>)))
\* time_decay_half_life_days: int(self.get('time_decay.half_life_days', '90'))
time_decay_half_life_days(cfg, env) ==
  Coerce("int", get(cfg, env, s_time_decay \o <<".">> \o s_half_life_days, PyStr(<<"9","0">>)))
\* optuna_n_trials: int(self.get('optuna.n_trials', '200'))
optuna_n_trials(cfg, env) ==
  Coerce("int", get(cfg, env, s_optuna \o <<".">> \o s_n_trials, PyStr(<<"2","0","0">>)))
\* optuna_timeout_seconds: int(self.get('optuna.timeout_seconds', '3600'))
optuna_timeout_seconds(cfg, env) ==
  Coerce("int", get(cfg, env, s_optuna \o <<".">> \o s_timeout_seconds, PyStr(<<"3","6","0","0">>)))
\* variant: another default literal
TopKDefaultTen(cfg, env) ==
  Coerce("int", get(cfg, env, s_export \o <<".">> \o s_top_k_default, PyStr(<<"1","0">>)))

\* top_k_default: int(self.get('export.top_k_default', '100'))
top_k_default(cfg, env) ==
  Coerce("int", get(cfg, env, s_export \o <<".">> \o s_top_k_default, PyStr(<<"1","0","0">>)))
\* ghl_export_format: self.get('export.ghl_export_format', 'ghl_csv')
ghl_export_format(cfg, env) ==
  get(cfg, env, s_export \o <<".">> \o s_ghl_export_format, PyStr(<<"g","h","l","_","c","s","v">>))

\* dispatch of a property read to the accessor of that name
PropertyNames ==
  {"db_user", "db_password", "db_host", "db_name",
   "db_port", "streamlit_server_port", "streamlit_server_address", "default_tenure_weight",
   "default_equity_weight", "default_legal_weight", "default_permit_weight", "default_listing_weight",
   "time_decay_half_life_days", "optuna_n_trials", "optuna_timeout_seconds", "top_k_default",
   "ghl_export_format"}
Property(name, cfg, env) ==
  CASE name = "db_user" -> db_user(cfg, env)
    [] name = "db_password" -> db_password(cfg, env)
    [] name = "db_host" -> db_host(cfg, env)
    [] name = "db_name" -> db_name(cfg, env)
    [] name = "db_port" -> db_port(cfg, env)
    [] name = "streamlit_server_port" -> streamlit_server_port(cfg, env)
    [] name = "streamlit_server_address" -> streamlit_server_address(cfg, env)
    [] name = "default_tenure_weight" -> default_tenure_weight(cfg, env)
    [] name = "default_equity_weight" -> default_equity_weight(cfg, env)
    [] name = "default_legal_weight" -> default_legal_weight(cfg, env)
    [] name = "default_permit_weight" -> default_permit_weight(cfg, env)
    [] name = "default_listing_weight" -> default_listing_weight(cfg, env)
    [] name = "time_decay_half_life_days" -> time_decay_half_life_days(cfg, env)
    [] name = "optuna_n_trials" -> optuna_n_trials(cfg, env)
    [] name = "optuna_timeout_seconds" -> optuna_timeout_seconds(cfg, env)
    [] name = "top_k_default" -> top_k_default(cfg, env)
    [] name = "ghl_export_format" -> ghl_export_format(cfg, env)

(***************************************************************************)
(* get_database_url                                                        *)
(***************************************************************************)
RECURSIVE NatToStr(_)
NatToStr(n) == IF n < 10 THEN <<Digits[n + 1]>> ELSE NatToStr(n \div 10) \o <<Digits[(n % 10) + 1]>>

RECURSIVE ZeroPad(_, _)
ZeroPad(s, width) == IF Len(s) >= width THEN s ELSE ZeroPad(<<"0">> \o s, width)

\* format(x, '') inside an f-string, i.e. str(x); floats are rendered in the
\* positional form repr() uses for magnitudes in [1e-4, 1e16)
Str(x) ==
  CASE x.t = "str" -> x.v
    [] x.t = "int" -> IF x.v < 0 THEN <<"-">> \o NatToStr(0 - x.v) ELSE NatToStr(x.v)
    [] x.t = "bool" -> IF x.v THEN <<"T","r","u","e">> ELSE <<"F","a","l","s","e">>
    [] x.t = "NoneType" -> <<"N","o","n","e">>
    [] x.t = "float" ->
         (IF x.v.neg THEN <<"-">> ELSE <<>>) \o
         (CASE x.v.kind = "nan" -> <<"n","a","n">>
            [] x.v.kind = "inf" -> <<"i","n","f">>
            [] x.v.kind = "finite" /\ x.v.e >= 0 -> NatToStr(x.v.m * Pow10(x.v.e)) \o <<".","0">>
            [] x.v.kind = "finite" /\ x.v.e < 0 ->
                 NatToStr(x.v.m \div Pow10(0 - x.v.e)) \o <<".">> \o
                 ZeroPad(NatToStr(x.v.m % Pow10(0 - x.v.e)), 0 - x.v.e))

UrlScheme ==
  <<"p","o","s","t","g","r","e","s","q","l","+","p","s","y","c","o","p","g","2",":","/","/">>

get_database_url(cfg, env) ==
  LET u == db_user(cfg, env)
      p == db_password(cfg, env)
      h == db_host(cfg, env)
      o == db_port(cfg, env)
      n == db_name(cfg, env)
  IN IF u.kind = "raise" THEN u
     ELSE IF p.kind = "raise" THEN p
     ELSE IF h.kind = "raise" THEN h
     ELSE IF o.kind = "raise" THEN o
     ELSE IF n.kind = "raise" THEN n
     ELSE Return(PyStr(UrlScheme \o Str(u.value) \o <<":">> \o Str(p.value) \o <<"@">> \o
                       Str(h.value) \o <<":">> \o Str(o.value) \o <<"/">> \o Str(n.value)))

(***************************************************************************)
(* Construction                                                            *)
(***************************************************************************)
\* a path argument: None or a str (paths are opaque, kept as TLA+ strings)
Path(p) == [t |-> "str", v |-> p]
PathTruthy(path) == path.t = "str" /\ path.v # ""

\* content of a file: unreadable/unparsable (open or toml.load raises), or the
\* mapping toml.load returns
Unparsable == [ok |-> FALSE]
Parses(doc) == [ok |-> TRUE, doc |-> doc]

\* variant: no try/except around open and toml.load
LoadConfigUncaught(cfg0, path, files) ==
  IF PathTruthy(path) /\ path.v \in DOMAIN files
  THEN IF files[path.v].ok
       THEN [config |-> files[path.v].doc, printed |-> 0, out |-> Return(PyNone)]
       ELSE [config |-> cfg0, printed |-> 0, out |-> Raise("TomlDecodeError")]
  ELSE [config |-> cfg0, printed |-> 0, out |-> Return(PyNone)]

\* Config._load_config, started with the mapping __init__ assigned
_load_config(cfg0, path, files) ==
  IF PathTruthy(path) /\ path.v \in DOMAIN files
  THEN IF files[path.v].ok
       THEN [config |-> files[path.v].doc, printed |-> 0, out |-> Return(PyNone)]
       ELSE [config |-> PyDict(<<>>), printed |-> 1, out |-> Return(PyNone)]
  ELSE [config |-> cfg0, printed |-> 0, out |-> Return(PyNone)]

\* Config.__init__
__init__(path, files) == _load_config(PyDict(<<>>), path, files)

(***************************************************************************)
(* The operations as steps of one Config instance: each returns an outcome *)
(* and the mapping and environment it leaves behind                        *)
(***************************************************************************)
\* variant: the resolved value is cached in self._config under the dotted key
GetStepCaching(cfg, env, key, default) ==
  LET out == get(cfg, env, key, default)
  IN [config |-> IF out.kind = "return" THEN PyDict((key :> out.value) @@ cfg.v) ELSE cfg,
      environ |-> env, out |-> out]

\* Config.get reads self._config and os.environ and assigns neither
GetStep(cfg, env, key, default) ==
  [config |-> cfg, environ |-> env, out |-> get(cfg, env, key, default)]

\* a property read is a call of Config.get followed by a coercion
PropertyStep(cfg, env, name) ==
  [config |-> cfg, environ |-> env, out |-> Property(name, cfg, env)]

UrlStep(cfg, env) ==
  [config |-> cfg, environ |-> env, out |-> get_database_url(cfg, env)]

(***************************************************************************)
(* Inputs                                                                  *)
(***************************************************************************)
\* at most this many environment variables are set at a time
MaxEnvVars == 1

s_a == <<"a">>
s_b == <<"b">>

\* [a] b = "x", z = "", i = 0, f = false, n = null, [a.m] k = "deep";
\* s = "text"; l = [1, 2]
DocNested ==
  PyDict((s_a :> PyDict((s_b :> PyStr(<<"x">>)) @@ (<<"z">> :> PyStr(<<>>)) @@
                        (<<"i">> :> PyInt(0)) @@ (<<"f">> :> PyBool(FALSE)) @@
                        (<<"n">> :> PyNone) @@
                        (<<"m">> :> PyDict(<<"k">> :> PyStr(<<"d","e","e","p">>))))) @@
         (<<"s">> :> PyStr(<<"t","e","x","t">>)) @@
         (<<"l">> :> PyList(<<PyInt(1), PyInt(2)>>)))

\* a = 7; "a.b" = "dotted" (a quoted key that contains a dot)
DocShallow ==
  PyDict((s_a :> PyInt(7)) @@ (<<"a",".","b">> :> PyStr(<<"d","o","t","t","e","d">>)))

\* a file that parses to the empty mapping
DocEmpty == PyDict(<<>>)

\* the catalog's sections, with values of several types
DocCatalog ==
  PyDict(
    (s_database :> PyDict((s_user :> PyStr(<<"s","c","o","r","i","n","g","_","s","v","c">>)) @@
                          (s_password :> PyStr(<<"p","w","1">>)) @@
                          (s_host :> PyStr(<<"d","b",".","l","o","c","a","l">>)) @@
                          (s_port :> PyInt(5433)) @@
                          (s_name :> PyStr(<<"a","u","g","u","r","d","b">>)))) @@
    (s_application :> PyDict((s_streamlit_server_port :> PyInt(8080)) @@
                             (s_streamlit_server_address :> PyBool(TRUE)))) @@
    (s_scoring :> PyDict((s_default_tenure_weight :> PyNone) @@
                         (s_default_equity_weight :> PyFloat(FALSE, 5, -1)) @@
                         (s_default_legal_weight :> PyInt(1)) @@
                         (s_default_permit_weight :> PyStr(<<"0",".","1","5">>)) @@
                         (s_default_listing_weight :> PyStr(<<"h","e","a","v","y">>)))) @@
    (s_time_decay :> PyDict(s_half_life_days :> PyFloat(FALSE, 305, -1))) @@
    (s_optuna :> PyDict((s_n_trials :> PyStr(<<"n","o","t","_","a","_","n","u","m","b","e","r">>)) @@
                        (s_timeout_seconds :> PyBool(TRUE)))) @@
    (s_export :> PyDict((s_top_k_default :> PyStr(<<"5","0">>)) @@
                        (s_ghl_export_format :> PyList(<<>>)))))

\* [database] host = "db.local"; scoring = "flat" (a section name bound to a str)
DocPartial ==
  PyDict((s_database :> PyDict(s_host :> PyStr(<<"d","b",".","l","o","c","a","l">>))) @@
         (s_scoring :> PyStr(<<"f","l","a","t">>)))

ConfigToml == "config.toml"

\* the constructor's argument: absent, empty, or the conventional path
ResolverPaths == {PyNone, Path(""), Path(ConfigToml)}
CatalogPaths == {PyNone, Path(ConfigToml)}

\* file systems: no file at the path, or a file with the given content
FileSystems(contents) == {<<>>} \cup {(ConfigToml :> c) : c \in contents}

ResolverContents == {Unparsable, Parses(DocEmpty), Parses(DocNested), Parses(DocShallow)}
CatalogContents == {Unparsable, Parses(DocCatalog), Parses(DocPartial)}

\* key paths passed to Config.get
ResolverKeys ==
  { <<"a",".","b">>, <<"a",".","z">>, <<"a",".","i">>, <<"a",".","f">>, <<"a",".","n">>,
    <<"a",".","m">>, <<"a",".","m",".","k">>, <<"a",".","q">>, <<"q",".","b">>,
    <<"s",".","b">>, <<"l",".","b">>, <<"a",".","n",".","b">>, <<"a","_","b">>,
    <<"A",".","b">>, <<"a",".",".","b">>, <<>> }
CatalogKeys == { s_database \o <<".">> \o s_port, s_optuna \o <<".">> \o s_n_trials,
                 s_scoring \o <<".">> \o s_default_tenure_weight }

\* defaults passed to Config.get
Defaults == {PyNone, PyStr(<<"d">>), PyInt(7)}

\* environment variables that may be set: <<name, value>>
ResolverBindings ==
  { <<n, v>> : n \in { <<"A","_","B">>, <<"A","_","N">>, <<"A","_","Q">>, <<"A","_","Z">>,
                       <<"S","_","B">>, <<"a","_","b">> },
               v \in { <<>>, <<"e","n","v">> } }
CatalogBindings ==
  {
    <<env_key(s_database \o <<".">> \o s_user), <<"s","v","c">>>>,
    <<env_key(s_database \o <<".">> \o s_password), <<>>>>,
    <<env_key(s_database \o <<".">> \o s_host), <<"h">>>>,
    <<env_key(s_database \o <<".">> \o s_name), <<"n">>>>,
    <<env_key(s_database \o <<".">> \o s_port), <<"6","5","4","3">>>>,
    <<env_key(s_application \o <<".">> \o s_streamlit_server_port), <<"n","o","t","_","a","_","n","u","m","b","e","r">>>>,
    <<env_key(s_application \o <<".">> \o s_streamlit_server_port), <<"4","2">>>>,
    <<env_key(s_application \o <<".">> \o s_streamlit_server_address), <<":",":","1">>>>,
    <<env_key(s_scoring \o <<".">> \o s_default_tenure_weight), <<"n","o","t","_","a","_","n","u","m","b","e","r">>>>,
    <<env_key(s_scoring \o <<".">> \o s_default_tenure_weight), <<"0",".","4","2">>>>,
    <<env_key(s_scoring \o <<".">> \o s_default_tenure_weight), <<"n","a","n">>>>,
    <<env_key(s_scoring \o <<".">> \o s_default_equity_weight), <<"n","o","t","_","a","_","n","u","m","b","e","r">>>>,
    <<env_key(s_scoring \o <<".">> \o s_default_equity_weight), <<"-","I","n","f">>>>,
    <<env_key(s_scoring \o <<".">> \o s_default_legal_weight), <<"n","o","t","_","a","_","n","u","m","b","e","r">>>>,
    <<env_key(s_scoring \o <<".">> \o s_default_legal_weight), <<" ","1","e","-","2"," ">>>>,
    <<env_key(s_scoring \o <<".">> \o s_default_permit_weight), <<"n","o","t","_","a","_","n","u","m","b","e","r">>>>,
    <<env_key(s_scoring \o <<".">> \o s_default_permit_weight), <<>>>>,
    <<env_key(s_scoring \o <<".">> \o s_default_listing_weight), <<"n","o","t","_","a","_","n","u","m","b","e","r">>>>,
    <<env_key(s_scoring \o <<".">> \o s_default_listing_weight), <<"i","n","f","i","n","i","t","y">>>>,
    <<env_key(s_time_decay \o <<".">> \o s_half_life_days), <<"n","o","t","_","a","_","n","u","m","b","e","r">>>>,
    <<env_key(s_time_decay \o <<".">> \o s_half_life_days), <<"1","_","0">>>>,
    <<env_key(s_optuna \o <<".">> \o s_n_trials), <<"n","o","t","_","a","_","n","u","m","b","e","r">>>>,
    <<env_key(s_optuna \o <<".">> \o s_n_trials), <<"0",".","4","2">>>>,
    <<env_key(s_optuna \o <<".">> \o s_timeout_seconds), <<"n","o","t","_","a","_","n","u","m","b","e","r">>>>,
    <<env_key(s_optuna \o <<".">> \o s_timeout_seconds), <<"n","a","n">>>>,
    <<env_key(s_export \o <<".">> \o s_top_k_default), <<"n","o","t","_","a","_","n","u","m","b","e","r">>>>,
    <<env_key(s_export \o <<".">> \o s_top_k_default), <<" ","+","7","\n">>>>,
    <<env_key(s_export \o <<".">> \o s_ghl_export_format), <<"j","s","o","n">>>>,
    <<env_key(s_optuna \o <<".">> \o s_n_trials), <<"1","2","a","b","c">>>>,
    <<<<"H","O","M","E">>, <<"/","r","o","o","t">>>> }

(***************************************************************************)
(* State                                                                   *)
(***************************************************************************)
VARIABLES
  pc,           \* the caller: "new" before Config(...), "ready" between calls,
                \* "returned" when a call has just come back, "failed" when
                \* the constructor raised
  fs,           \* the files that exist, with their content
  environ,      \* os.environ: the variables that are set, with their values
  config_file,  \* self.config_file
  _config,      \* self._config
  loaded,       \* history: self._config as __init__ left it
  printed,      \* number of warnings printed
  ret           \* the call that has just come back: operation, arguments, outcome

vars == <<pc, fs, environ, config_file, _config, loaded, printed, ret>>

NoCall == [op |-> "none"]

InitWith(contents) ==
  /\ pc = "new"
  /\ fs \in FileSystems(contents)
  /\ environ = <<>>
  /\ config_file = PyNone
  /\ _config = PyDict(<<>>)
  /\ loaded = PyDict(<<>>)
  /\ printed = 0
  /\ ret = NoCall

\* config = Config(path)
Construct(paths) ==
  /\ pc = "new"
  /\ \E path \in paths :
       LET r == __init__(path, fs)
       IN /\ config_file' = path
          /\ _config' = r.config
          /\ loaded' = r.config
          /\ printed' = printed + r.printed
          /\ ret' = [op |-> "__init__", out |-> r.out]
          /\ pc' = IF r.out.kind = "return" THEN "returned" ELSE "failed"
  /\ UNCHANGED <<fs, environ>>

\* config.get(key, default)
Get(keys) ==
  /\ pc = "ready"
  /\ \E key \in keys, default \in Defaults :
       LET r == GetStep(_config, environ, key, default)
       IN /\ _config' = r.config
          /\ environ' = r.environ
          /\ ret' = [op |-> "get", key |-> key, default |-> default, out |-> r.out]
  /\ pc' = "returned"
  /\ UNCHANGED <<fs, config_file, loaded, printed>>

\* config.<name>, one of the 17 properties
ReadProperty ==
  /\ pc = "ready"
  /\ \E name \in PropertyNames :
       LET r == PropertyStep(_config, environ, name)
       IN /\ _config' = r.config
          /\ environ' = r.environ
          /\ ret' = [op |-> "property", name |-> name, out |-> r.out]
  /\ pc' = "returned"
  /\ UNCHANGED <<fs, config_file, loaded, printed>>

\* config.get_database_url()
GetDatabaseUrl ==
  /\ pc = "ready"
  /\ LET r == UrlStep(_config, environ)
     IN /\ _config' = r.config
        /\ environ' = r.environ
        /\ ret' = [op |-> "get_database_url", out |-> r.out]
  /\ pc' = "returned"
  /\ UNCHANGED <<fs, config_file, loaded, printed>>

\* the caller is done with the outcome of the call and goes on
Continue ==
  /\ pc = "returned"
  /\ pc' = "ready"
  /\ ret' = NoCall
  /\ UNCHANGED <<fs, environ, config_file, _config, loaded, printed>>

\* the process environment changes between calls: a variable is set
Setenv(bindings) ==
  /\ pc = "ready"
  /\ Cardinality(DOMAIN environ) < MaxEnvVars
  /\ \E b \in bindings :
       /\ b[1] \notin DOMAIN environ
       /\ environ' = (b[1] :> b[2]) @@ environ
  /\ UNCHANGED <<pc, fs, config_file, _config, loaded, printed, ret>>

\* ... or removed
Unsetenv ==
  /\ pc = "ready"
  /\ \E n \in DOMAIN environ :
       environ' = [m \in DOMAIN environ \ {n} |-> environ[m]]
  /\ UNCHANGED <<pc, fs, config_file, _config, loaded, printed, ret>>

\* the resolver with arbitrary key paths
Init == InitWith(ResolverContents)
Next ==
  \/ Construct(ResolverPaths)
  \/ Get(ResolverKeys)
  \/ Continue
  \/ Setenv(ResolverBindings)
  \/ Unsetenv
Spec == Init /\ [][Next]_vars

\* the typed accessors over the catalog
InitCatalog == InitWith(CatalogContents)
NextCatalog ==
  \/ Construct(CatalogPaths)
  \/ Get(CatalogKeys)
  \/ ReadProperty
  \/ GetDatabaseUrl
  \/ Continue
  \/ Setenv(CatalogBindings)
  \/ Unsetenv
SpecCatalog == InitCatalog /\ [][NextCatalog]_vars

(***************************************************************************)
(* Properties                                                              *)
(***************************************************************************)
\* the setting catalog as the documentation tabulates it:
\* key path, declared type, default in that type
CatalogTable ==
  "db_user" :> [key |-> <<"d","a","t","a","b","a","s","e",".","u","s","e","r">>,
      type |-> "string", default |-> PyStr(<<"A","u","g","u","r","_","A","p","p">>)] @@
  "db_password" :> [key |-> <<"d","a","t","a","b","a","s","e",".","p","a","s","s","w","o","r","d">>,
      type |-> "string", default |-> PyStr(<<>>)] @@
  "db_host" :> [key |-> <<"d","a","t","a","b","a","s","e",".","h","o","s","t">>,
      type |-> "string", default |-> PyStr(<<"l","o","c","a","l","h","o","s","t">>)] @@
  "db_name" :> [key |-> <<"d","a","t","a","b","a","s","e",".","n","a","m","e">>,
      type |-> "string", default |-> PyStr(<<"a","u","g","u","r">>)] @@
  "db_port" :> [key |-> <<"d","a","t","a","b","a","s","e",".","p","o","r","t">>,
      type |-> "string", default |-> PyStr(<<"5","4","3","2">>)] @@
  "streamlit_server_port" :> [key |-> <<"a","p","p","l","i","c","a","t","i","o","n",".","s","t","r","e","a","m","l","i","t","_","s","e","r","v","e","r","_","p","o","r","t">>,
      type |-> "integer", default |-> PyInt(8501)] @@
  "streamlit_server_address" :> [key |-> <<"a","p","p","l","i","c","a","t","i","o","n",".","s","t","r","e","a","m","l","i","t","_","s","e","r","v","e","r","_","a","d","d","r","e","s","s">>,
      type |-> "string", default |-> PyStr(<<"0",".","0",".","0",".","0">>)] @@
  "default_tenure_weight" :> [key |-> <<"s","c","o","r","i","n","g",".","d","e","f","a","u","l","t","_","t","e","n","u","r","e","_","w","e","i","g","h","t">>,
      type |-> "float", default |-> PyFloat(FALSE, 3, -1)] @@
  "default_equity_weight" :> [key |-> <<"s","c","o","r","i","n","g",".","d","e","f","a","u","l","t","_","e","q","u","i","t","y","_","w","e","i","g","h","t">>,
      type |-> "float", default |-> PyFloat(FALSE, 25, -2)] @@
  "default_legal_weight" :> [key |-> <<"s","c","o","r","i","n","g",".","d","e","f","a","u","l","t","_","l","e","g","a","l","_","w","e","i","g","h","t">>,
      type |-> "float", default |-> PyFloat(FALSE, 2, -1)] @@
  "default_permit_weight" :> [key |-> <<"s","c","o","r","i","n","g",".","d","e","f","a","u","l","t","_","p","e","r","m","i","t","_","w","e","i","g","h","t">>,
      type |-> "float", default |-> PyFloat(FALSE, 15, -2)] @@
  "default_listing_weight" :> [key |-> <<"s","c","o","r","i","n","g",".","d","e","f","a","u","l","t","_","l","i","s","t","i","n","g","_","w","e","i","g","h","t">>,
      type |-> "float", default |-> PyFloat(FALSE, 1, -1)] @@
  "time_decay_half_life_days" :> [key |-> <<"t","i","m","e","_","d","e","c","a","y",".","h","a","l","f","_","l","i","f","e","_","d","a","y","s">>,
      type |-> "integer", default |-> PyInt(90)] @@
  "optuna_n_trials" :> [key |-> <<"o","p","t","u","n","a",".","n","_","t","r","i","a","l","s">>,
      type |-> "integer", default |-> PyInt(200)] @@
  "optuna_timeout_seconds" :> [key |-> <<"o","p","t","u","n","a",".","t","i","m","e","o","u","t","_","s","e","c","o","n","d","s">>,
      type |-> "integer", default |-> PyInt(3600)] @@
  "top_k_default" :> [key |-> <<"e","x","p","o","r","t",".","t","o","p","_","k","_","d","e","f","a","u","l","t">>,
      type |-> "integer", default |-> PyInt(100)] @@
  "ghl_export_format" :> [key |-> <<"e","x","p","o","r","t",".","g","h","l","_","e","x","p","o","r","t","_","f","o","r","m","a","t">>,
      type |-> "string", default |-> PyStr(<<"g","h","l","_","c","s","v">>)]

\* the Python type that a declared type stands for
TypeTag(type) ==
  CASE type = "string" -> "str" [] type = "integer" -> "int" [] type = "float" -> "float"

\* the environment-variable name of a key path: each character upper-cased,
\* each "." turned into "_"
EnvName(key) == [i \in 1..Len(key) |-> IF key[i] = "." THEN "_" ELSE UpperChar(key[i])]

RECURSIVE Segments(_, _, _)
\* the dot-separated segments of a key path, read left to right
Segments(key, i, cur) ==
  IF i > Len(key) THEN <<cur>>
  ELSE IF key[i] = "." THEN <<cur>> \o Segments(key, i + 1, <<>>)
  ELSE Segments(key, i + 1, Append(cur, key[i]))

RECURSIVE FileLookup(_, _)
\* the value the mapping holds along the segments: "missing" when a segment is
\* not a key of the mapping reached, "notmapping" when a value that is not a
\* mapping is reached with segments left, else "found" with the value
FileLookup(value, segs) ==
  IF segs = <<>> THEN [st |-> "found", value |-> value]
  ELSE IF value.t # "dict" THEN [st |-> "notmapping"]
  ELSE IF Head(segs) \notin DOMAIN value.v THEN [st |-> "missing"]
  ELSE FileLookup(value.v[Head(segs)], Tail(segs))

FileOf(key) == FileLookup(_config, Segments(key, 1, <<>>))
\* the file resolves the key: the walk succeeds and ends on a non-null value
FileResolves(key) == FileOf(key).st = "found" /\ FileOf(key).value.t # "NoneType"
\* the key is present in the file with the value null
FileNull(key) == FileOf(key).st = "found" /\ FileOf(key).value.t = "NoneType"
EnvSet(key) == EnvName(key) \in DOMAIN environ
EnvValue(key) == PyStr(environ[EnvName(key)])

GetReturned == pc = "returned" /\ ret.op = "get"
PropertyReturned == pc = "returned" /\ ret.op = "property"

\* no file was given, or none exists at the path given
NoFile == config_file.t = "NoneType" \/ config_file.v \notin DOMAIN fs

\* C1: when the walk of the file mapping along the key's segments succeeds and
\* ends on a non-null value, Config.get returns exactly that value, whatever
\* the environment and the default.
C1_FileValueReturned ==
  GetReturned /\ FileResolves(ret.key) => ret.out = Return(FileOf(ret.key).value)

\* C1 witness: the file holds the empty string at a.z, A_Z is set in the
\* environment, and get('a.z', 7) returned the file's empty string.
C1_Witness ==
  /\ GetReturned
  /\ ret.key = <<"a",".","z">>
  /\ ret.default = PyInt(7)
  /\ FileResolves(ret.key)
  /\ <<"A","_","Z">> \in DOMAIN environ
  /\ environ[<<"A","_","Z">>] = <<"e","n","v">>
  /\ ret.out = Return(PyStr(<<>>))

\* C2: when the file does not resolve the key and the environment variable
\* named after the key is present, Config.get returns that variable's value,
\* also when the value is the empty string.
C2_EnvValueReturned ==
  GetReturned /\ ~FileResolves(ret.key) /\ EnvSet(ret.key) => ret.out = Return(EnvValue(ret.key))

\* C2 witness: a.q is not in the file, A_Q is set to the empty string, and
\* get('a.q', 'd') returned the empty string.
C2_Witness ==
  /\ GetReturned
  /\ ret.key = <<"a",".","q">>
  /\ ret.default = PyStr(<<"d">>)
  /\ _config = DocNested
  /\ <<"A","_","Q">> \in DOMAIN environ
  /\ environ[<<"A","_","Q">>] = <<>>
  /\ ret.out = Return(PyStr(<<>>))

\* C3: when neither the file nor the environment resolves the key, Config.get
\* returns the default it was given, same value and same type, and does not raise.
C3_DefaultReturned ==
  GetReturned /\ ~FileResolves(ret.key) /\ ~EnvSet(ret.key) => ret.out = Return(ret.default)

\* C3 witness: get('q.b', 7) with a loaded file that has no q and no Q_B in
\* the environment returned the int 7.
C3_Witness ==
  /\ GetReturned
  /\ ret.key = <<"q",".","b">>
  /\ ret.default = PyInt(7)
  /\ _config = DocNested
  /\ ret.out = Return(PyInt(7))

TenureKey == CatalogTable["default_tenure_weight"].key

\* C4: a key whose file value is null resolves as if absent from the file: to
\* the environment variable when present, else to the default; with
\* scoring.default_tenure_weight null and SCORING_DEFAULT_TENURE_WEIGHT=0.42
\* the default_tenure_weight accessor returns the float 0.42.
C4_NullIsAbsent ==
  /\ GetReturned /\ FileNull(ret.key) =>
       ret.out = Return(IF EnvSet(ret.key) THEN EnvValue(ret.key) ELSE ret.default)
  /\ ( /\ PropertyReturned
       /\ ret.name = "default_tenure_weight"
       /\ FileNull(TenureKey)
       /\ EnvSet(TenureKey)
       /\ environ[EnvName(TenureKey)] = <<"0",".","4","2">> )
     => ret.out = Return(PyFloat(FALSE, 42, -2))

\* C4 witness: the file has scoring.default_tenure_weight null, the variable
\* is 0.42 and the accessor returned 0.42.
C4_Witness ==
  /\ PropertyReturned
  /\ ret.name = "default_tenure_weight"
  /\ FileNull(TenureKey)
  /\ environ = (<<"S","C","O","R","I","N","G","_","D","E","F","A","U","L","T","_",
                  "T","E","N","U","R","E","_","W","E","I","G","H","T">> :> <<"0",".","4","2">>)
  /\ ret.out = Return(PyFloat(FALSE, 42, -2))

\* C5: Config.get never raises; when a segment is missing or a value that is
\* not a mapping is reached before the last segment, the outcome is the one
\* of the same call on an empty file mapping.
C5_InvalidPathFallsThrough ==
  GetReturned =>
    /\ ret.out.kind = "return"
    /\ FileOf(ret.key).st \in {"missing", "notmapping"} =>
         ret.out = get(PyDict(<<>>), environ, ret.key, ret.default)

\* C5 witness: s is a string in the file, S_B is set, and get('s.b', None)
\* returned the variable's value.
C5_Witness ==
  /\ GetReturned
  /\ ret.key = <<"s",".","b">>
  /\ FileOf(ret.key).st = "notmapping"
  /\ <<"S","_","B">> \in DOMAIN environ
  /\ ret.out = Return(PyStr(environ[<<"S","_","B">>]))

\* C6: the constructor never raises; with a file that exists and cannot be
\* parsed exactly one warning is printed, the mapping is empty and every
\* later get returns what a resolver constructed without a file returns; with
\* no path or no file at the path the mapping is empty and nothing is printed.
C6_LoadNeverRaises ==
  /\ pc # "failed"
  /\ pc # "new" =>
       /\ (~NoFile /\ ~fs[config_file.v].ok) =>
            /\ printed = 1
            /\ _config = PyDict(<<>>)
            /\ GetReturned =>
                 ret.out = get(__init__(PyNone, fs).config, environ, ret.key, ret.default)
       /\ NoFile => printed = 0 /\ _config = PyDict(<<>>)

\* C6 witness: the file at the path is unparsable, one warning was printed,
\* and get('a.b', 'd') with A_B set returned the variable.
C6_Witness ==
  /\ GetReturned
  /\ ~NoFile
  /\ ~fs[config_file.v].ok
  /\ printed = 1
  /\ ret.key = <<"a",".","b">>
  /\ <<"A","_","B">> \in DOMAIN environ
  /\ ret.out = Return(PyStr(environ[<<"A","_","B">>]))

NumericAccessors == {n \in PropertyNames : CatalogTable[n].type \in {"integer", "float"}}

\* the raw value Config.get resolves for an accessor's key from the file or
\* the environment (None when neither has it)
Resolved(name) ==
  IF FileResolves(CatalogTable[name].key) THEN FileOf(CatalogTable[name].key).value
  ELSE IF EnvSet(CatalogTable[name].key) THEN EnvValue(CatalogTable[name].key)
  ELSE PyNone

\* a string has the shape of a number when, surrounding whitespace apart, it
\* has a digit and consists of digits, ".", "_", signs and exponent markers
NumericShape(s) ==
  /\ \E i \in 1..Len(s) : IsDigit(s[i])
  /\ \A i \in 1..Len(s) :
       IsDigit(s[i]) \/ s[i] \in {".", "_", "+", "-", "e", "E"} \/ s[i] \in Whitespace
NonNumericString(x) == x.t = "str" /\ ~NumericShape(x.v)

RECURSIVE DropSpaces(_)
DropSpaces(s) ==
  IF s = <<>> THEN s
  ELSE IF s[1] \in Whitespace THEN DropSpaces(Tail(s))
  ELSE <<s[1]>> \o DropSpaces(Tail(s))

\* a spelling of a non-finite float: nan, inf or infinity in any letter case,
\* with an optional sign
NonFiniteSpelling(s) ==
  LET w == DropSpaces(s)
      u == IF w # <<>> /\ w[1] \in {"+", "-"} THEN Tail(w) ELSE w
  IN [i \in 1..Len(u) |-> LowerChar(u[i])] \in
       { <<"n","a","n">>, <<"i","n","f">>, <<"i","n","f","i","n","i","t","y">> }

\* C7 as stated: an integer or float accessor whose key resolves to a
\* non-numeric string raises; it returns nothing.
C7_NonNumericRaises ==
  ( /\ PropertyReturned
    /\ ret.name \in NumericAccessors
    /\ NonNumericString(Resolved(ret.name)) )
  => ret.out.kind = "raise"

\* C7 amended: an integer or float accessor whose key resolves to a
\* non-numeric string raises ValueError, except that a float accessor returns
\* the non-finite float for a spelling of nan, inf or infinity.
C7_NonNumericRaisesUnlessNonFinite ==
  ( /\ PropertyReturned
    /\ ret.name \in NumericAccessors
    /\ NonNumericString(Resolved(ret.name)) )
  => IF CatalogTable[ret.name].type = "float" /\ NonFiniteSpelling(Resolved(ret.name).v)
     THEN ret.out.kind = "return" /\ ret.out.value.t = "float" /\ ret.out.value.v.kind # "finite"
     ELSE ret.out = Raise("ValueError")

\* C7 witness: no file value, OPTUNA_N_TRIALS=not_a_number, and optuna_n_trials
\* raised ValueError.
C7_Witness ==
  /\ PropertyReturned
  /\ ret.name = "optuna_n_trials"
  /\ _config = PyDict(<<>>)
  /\ environ = (<<"O","P","T","U","N","A","_","N","_","T","R","I","A","L","S">> :>
                  <<"n","o","t","_","a","_","n","u","m","b","e","r">>)
  /\ ret.out = Raise("ValueError")

\* C8: an accessor that returns normally returns a value of the type the
\* catalog declares for it, whichever source supplied the value.
C8_DeclaredType ==
  PropertyReturned /\ ret.out.kind = "return" =>
    ret.out.value.t = TypeTag(CatalogTable[ret.name].type)

CatalogEnvNamesSet == {EnvName(CatalogTable[n].key) : n \in PropertyNames}

\* C9: with no config file and none of the catalog's environment variables
\* set, every accessor returns its catalog default in its declared type.
C9_DefaultCatalog ==
  PropertyReturned /\ NoFile /\ DOMAIN environ \cap CatalogEnvNamesSet = {} =>
    ret.out = Return(CatalogTable[ret.name].default)

\* C9 witness: no file, only HOME set, and top_k_default returned the int 100.
C9_Witness ==
  /\ PropertyReturned
  /\ NoFile
  /\ DOMAIN environ = {<<"H","O","M","E">>}
  /\ ret.name = "top_k_default"
  /\ ret.out = Return(PyInt(100))

\* C10: once the constructor has returned, no step changes the mapping, which
\* stays the one the constructor left, and no call of get, of an accessor or
\* of get_database_url changes the environment.
C10_MappingFrozen ==
  [][pc # "new" =>
       /\ _config' = _config
       /\ _config = loaded
       /\ pc' = "returned" => environ' = environ]_vars

\* C10 witness: a file was loaded, a variable is set, and get_database_url
\* has returned with the mapping as the constructor left it.
C10_Witness ==
  /\ pc = "returned"
  /\ ret.op = "get_database_url"
  /\ ret.out.kind = "return"
  /\ _config = DocCatalog
  /\ _config = loaded
  /\ environ # <<>>
====
